---- MODULE Spec2Model ----
(***************************************************************************)
(* Booking / session lifecycle and balance ledger of the parking           *)
(* management backend (backend/app/api/endpoints).  Money is in whole      *)
(* roubles, time in minutes.  Row ids are positions in the table           *)
(* sequences; 0 stands for a NULL reference.                               *)
(***************************************************************************)
EXTENDS Integers, Sequences, FiniteSets, TLC

\* ------------------------------------------------------------------ bounds
MaxBookings == 2
MaxSessions == 2
MaxTxns == 2

\* --------------------------------------------------------- fixed entities
Customers == {"c1", "c2"}
Vehicles == {"v1"}
\* every registered vehicle: v1 and v2 belong to c1, v3 to c2
Fleet == {"v1", "v2", "v3"}
VehicleOwner == [v \in Fleet |-> IF v = "v3" THEN "c2" ELSE "c1"]
Spots == {"s1", "s2"}
Procs == {"p1", "p2"}
Zones == {"z1", "z2"}

NoTime == -1
NoCost == -1
NoRate == -1

PricePerHour == 100
PricePerDay == 800
BufferMinutes == 5
DayMinutes == 1440
HourMinutes == 60

\* zone z1 carries the standard tariff, zone z2 has tariff_id = NULL
ZoneTariff == [z \in Zones |->
    IF z = "z1" THEN [present |-> TRUE, price_per_hour |-> PricePerHour, price_per_day |-> PricePerDay]
                ELSE [present |-> FALSE, price_per_hour |-> 0, price_per_day |-> NoRate]]
ZoneTotal == [z \in Zones |-> IF z = "z1" THEN 2 ELSE 1]

\* ---------------------------------------------------------- input domains
InitBalances == {0, 300}
TopupAmounts == {0, 200}
NowPoints == {0, 60}
BookWindows == {<<60, 180>>, <<0, 60>>, <<180, 180>>}
EntryTimes == {NoTime, 0}
ExitTimes == {30, 120, 241}
SpotExitTimes == {30, 241}
BookingStatuses == {"pending", "confirmed", "cancelled", "completed"}

VARIABLES balance, ledger, bookings, sessions, payments, spots, available, now, req

vars == <<balance, ledger, bookings, sessions, payments, spots, available, now, req>>
db == <<balance, ledger, bookings, sessions, payments, spots, available>>

\* ------------------------------------------------------------ cost engine
CeilDiv(a, b) == (a + b - 1) \div b

\* truthiness test `if tariff.price_per_day` (None and 0 are both falsy)
HasDayRate(t) == t.price_per_day # NoRate /\ t.price_per_day # 0

TariffCost(d, t) ==
    IF d < DayMinutes
    THEN LET cost == t.price_per_hour * CeilDiv(d, HourMinutes)
         IN IF HasDayRate(t) /\ cost > t.price_per_day THEN t.price_per_day ELSE cost
    ELSE LET days == CeilDiv(d, DayMinutes)
         IN IF HasDayRate(t) THEN t.price_per_day * days ELSE t.price_per_hour * 24 * days

\* calculate_session_cost: 0 when the zone has no tariff
SessionCost(zone, entry, exit) ==
    IF ~ZoneTariff[zone].present THEN 0
    ELSE TariffCost(exit - entry, ZoneTariff[zone])

\* ----------------------------------------------------------------- ledger
Txn(c, b, s, amount, type, before, after) ==
    [customer |-> c, booking |-> b, session |-> s, amount |-> amount, type |-> type,
     balance_before |-> before, balance_after |-> after]

\* a request that raises before commit: the per-request transaction is discarded
Reject == UNCHANGED vars

\* a worker with no request in flight
Idle == [pc |-> "idle", op |-> "none", customer |-> "c1", args |-> <<>>, read |-> <<>>, result |-> "none"]

SeedBooking ==
    [customer |-> "c1", vehicle |-> "v1", spot |-> "s1", start |-> 60, end |-> 180,
     status |-> "pending", estimated_cost |-> SessionCost("z1", 60, 180)]

SeedPayment ==
    [session |-> 0, booking |-> 1, customer |-> "c1", amount |-> SeedBooking.estimated_cost,
     payment_method |-> "balance", status |-> "completed", transaction_id |-> 0]

Init ==
    /\ balance \in {f \in [Customers -> InitBalances] : f["c2"] = 300}
    /\ ledger = <<>>
    /\ bookings = <<SeedBooking>>
    /\ payments = <<SeedPayment>>
    /\ sessions = <<>>
    /\ spots = [s \in Spots |-> [exists |-> TRUE, zone |-> "z1", is_occupied |-> FALSE, is_active |-> TRUE]]
    /\ available = [z \in Zones |-> IF z = "z1" THEN 2 ELSE 0]
    /\ now = 0
    /\ req = [p \in Procs |-> Idle]

\* ------------------------------------------------------------------ clock
Tick ==
    /\ \E t \in NowPoints : t > now /\ now' = t
    /\ UNCHANGED <<db, req>>

\* ----------------------------------------------------------------- topup
TopupAfterUnchanged(before, amount) == before

TopupAfter(before, amount) == before + amount

TopupResponseLenient(c, amount) == IF amount < 0 THEN "InvalidInput" ELSE "ok"

TopupResponse(c, amount) == IF amount <= 0 THEN "InvalidInput" ELSE "ok"

TopupCommitRewrite(c, amount, before) ==
    /\ ledger' = IF ledger = <<>>
                 THEN <<Txn(c, 0, 0, amount, "topup", before, TopupAfter(before, amount))>>
                 ELSE [ledger EXCEPT ![Len(ledger)] =
                          Txn(c, 0, 0, amount, "topup", before, TopupAfter(before, amount))]
    /\ balance' = [balance EXCEPT ![c] = TopupAfter(before, amount)]
    /\ UNCHANGED <<bookings, sessions, payments, spots, available, now>>

\* what a committed topup_balance writes; `before` is the balance the request loaded
TopupCommit(c, amount, before) ==
    /\ Len(ledger) < MaxTxns
    /\ ledger' = Append(ledger, Txn(c, 0, 0, amount, "topup", before, TopupAfter(before, amount)))
    /\ balance' = [balance EXCEPT ![c] = TopupAfter(before, amount)]
    /\ UNCHANGED <<bookings, sessions, payments, spots, available, now>>

Topup(c, amount) ==
    IF TopupResponse(c, amount) # "ok" THEN Reject
    ELSE TopupCommit(c, amount, balance[c]) /\ UNCHANGED req

\* --------------------------------------------------------------- bookings
OverlapsInclusive(b, start, end) == b.start <= end /\ b.end >= start

Overlaps(b, start, end) == b.start < end /\ b.end > start

\* rows of the conflict query: same spot, pending or confirmed, overlapping
ConflictingBookings(s, start, end) ==
    {i \in 1..Len(bookings) :
        /\ bookings[i].spot = s
        /\ bookings[i].status \in {"pending", "confirmed"}
        /\ Overlaps(bookings[i], start, end)}

NewBooking(c, v, s, start, end) ==
    [customer |-> c, vehicle |-> v, spot |-> s, start |-> start, end |-> end,
     status |-> "pending", estimated_cost |-> NoCost]

\* what a committed create_booking writes
CreateBookingCommit(c, v, s, start, end) ==
    /\ bookings' = Append(bookings, NewBooking(c, v, s, start, end))
    /\ UNCHANGED <<balance, ledger, sessions, payments, spots, available, now>>

CreateBookingResponse(c, v, s, start, end) ==
    LET conflicts == ConflictingBookings(s, start, end)
    IN IF VehicleOwner[v] # c THEN "NotFound"
       ELSE IF ~spots[s].exists THEN "NotFound"
       ELSE IF ~spots[s].is_active THEN "InvalidState"
       ELSE IF Cardinality(conflicts) > 1 THEN "ServerError"
       ELSE IF Cardinality(conflicts) = 1 THEN "Conflict"
       ELSE IF start >= end THEN "InvalidInput"
       ELSE IF start < now THEN "InvalidInput"
       ELSE "ok"

CreateBooking(c, v, s, start, end) ==
    IF CreateBookingResponse(c, v, s, start, end) # "ok" THEN Reject
    ELSE /\ Len(bookings) < MaxBookings
         /\ CreateBookingCommit(c, v, s, start, end)
         /\ UNCHANGED req

OwnBooking(c, b) == b \in 1..Len(bookings) /\ bookings[b].customer = c

UpdateBookingStatusResponse(c, b, st) ==
    IF ~OwnBooking(c, b) THEN "NotFound"
    ELSE IF st \notin BookingStatuses THEN "InvalidInput"
    ELSE "ok"

UpdateBookingStatus(c, b, st) ==
    IF UpdateBookingStatusResponse(c, b, st) # "ok" THEN Reject
    ELSE /\ bookings' = [bookings EXCEPT ![b].status = st]
         /\ UNCHANGED <<balance, ledger, sessions, payments, spots, available, now, req>>

\* what a committed cancel_booking writes
CancelBookingCommit(c, b) ==
    /\ bookings' = [bookings EXCEPT ![b].status = "cancelled"]
    /\ UNCHANGED <<balance, ledger, sessions, payments, spots, available, now>>

CancelBookingResponse(c, b) ==
    IF ~OwnBooking(c, b) THEN "NotFound"
    ELSE IF bookings[b].status = "completed" THEN "AlreadyTerminal"
    ELSE "ok"

CancelBooking(c, b) ==
    IF CancelBookingResponse(c, b) # "ok" THEN Reject
    ELSE CancelBookingCommit(c, b) /\ UNCHANGED req

\* --------------------------------------------------------------- sessions
NewSession(v, s, b, entry) ==
    [booking |-> b, vehicle |-> v, spot |-> s, entry_time |-> entry, exit_time |-> NoTime,
     duration_minutes |-> NoTime, total_cost |-> NoCost, status |-> "active"]

MatchesBookingAnyVehicle(c, v, s, b) ==
    /\ b \in 1..Len(bookings)
    /\ bookings[b].customer = c
    /\ bookings[b].spot = s

\* the booking row the session-start query returns: same customer, vehicle and spot
MatchesBooking(c, v, s, b) ==
    /\ b \in 1..Len(bookings)
    /\ bookings[b].customer = c
    /\ bookings[b].vehicle = v
    /\ bookings[b].spot = s

TooEarlyNoBuffer(b) == now < bookings[b].start

TooEarly(b) == now < bookings[b].start - BufferMinutes

BookingExpired(b) == now > bookings[b].end

SpotTakenIgnored(s) == FALSE

SpotTaken(s) == spots[s].is_occupied

\* what a committed start_parking_session writes; `avail` is the zone counter it loaded
StartSessionCommit(v, s, b, entry, avail) ==
    /\ Len(sessions) < MaxSessions
    /\ sessions' = Append(sessions, NewSession(v, s, b, IF entry = NoTime THEN now ELSE entry))
    /\ spots' = [spots EXCEPT ![s].is_occupied = TRUE]
    /\ available' = [available EXCEPT ![spots[s].zone] = IF avail - 1 < 0 THEN 0 ELSE avail - 1]
    /\ bookings' = IF b # 0 /\ bookings[b].status = "pending"
                   THEN [bookings EXCEPT ![b].status = "confirmed"]
                   ELSE bookings
    /\ UNCHANGED <<balance, ledger, payments, now>>

StartSessionResponse(c, v, s, b, entry) ==
    IF VehicleOwner[v] # c THEN "NotFound"
    ELSE IF ~spots[s].exists THEN "NotFound"
    ELSE IF SpotTaken(s) THEN "Conflict"
    ELSE IF b # 0 /\ ~MatchesBooking(c, v, s, b) THEN "NotFound"
    ELSE IF b # 0 /\ TooEarly(b) THEN "TooEarly"
    ELSE IF b # 0 /\ BookingExpired(b) THEN "BookingExpired"
    ELSE IF b # 0 /\ bookings[b].status \in {"cancelled", "completed"} THEN "InvalidState"
    ELSE "ok"

StartSession(c, v, s, b, entry) ==
    IF StartSessionResponse(c, v, s, b, entry) # "ok" THEN Reject
    ELSE StartSessionCommit(v, s, b, entry, available[spots[s].zone]) /\ UNCHANGED req

OwnSessionAny(c, sid) == sid \in 1..Len(sessions)

OwnSession(c, sid) == sid \in 1..Len(sessions) /\ VehicleOwner[sessions[sid].vehicle] = c

InsufficientNever(bal, amount) == FALSE

InsufficientOnlyWhenEmpty(bal, amount) == bal <= 0

InsufficientOrEqual(bal, amount) == bal <= amount

\* the funds check before a debit
Insufficient(bal, amount) == bal < amount

PaymentsOfBooking(b) == {i \in 1..Len(payments) : payments[i].booking = b}

\* session fields and spot / zone counters written by end_parking_session
CloseSession(sid, exit, cost, avail) ==
    LET s == sessions[sid].spot
    IN /\ sessions' = [sessions EXCEPT ![sid].exit_time = exit,
                                       ![sid].status = "completed",
                                       ![sid].duration_minutes = exit - sessions[sid].entry_time,
                                       ![sid].total_cost = cost]
       /\ IF spots[s].exists
          THEN /\ spots' = [spots EXCEPT ![s].is_occupied = FALSE]
               /\ available' = [available EXCEPT ![spots[s].zone] =
                                    IF avail + 1 > ZoneTotal[spots[s].zone]
                                    THEN ZoneTotal[spots[s].zone] ELSE avail + 1]
          ELSE UNCHANGED <<spots, available>>

DifferenceSwapped(estimated, actual) == actual - estimated

Difference(estimated, actual) == estimated - actual

\* settlement of a session that came from booking b
SettleBooking(c, sid, b, cost, before) ==
    LET difference == Difference(bookings[b].estimated_cost, cost)
    IN /\ IF difference > 0
          THEN /\ Len(ledger) < MaxTxns
               /\ balance' = [balance EXCEPT ![c] = before + difference]
               /\ ledger' = Append(ledger, Txn(c, b, sid, difference, "refund", before, before + difference))
          ELSE IF difference < 0
          THEN /\ Len(ledger) < MaxTxns
               /\ balance' = [balance EXCEPT ![c] = before - (0 - difference)]
               /\ ledger' = Append(ledger, Txn(c, b, sid, 0 - difference, "penalty", before,
                                               before - (0 - difference)))
          ELSE UNCHANGED <<balance, ledger>>
       /\ bookings' = [bookings EXCEPT ![b].status = "completed"]
       /\ payments' = [i \in 1..Len(payments) |->
                          IF payments[i].booking = b
                          THEN [payments[i] EXCEPT !.session = sid, !.amount = cost]
                          ELSE payments[i]]

\* settlement of a session without a booking
SettleWalkIn(c, sid, cost, before) ==
    /\ Len(ledger) < MaxTxns
    /\ balance' = [balance EXCEPT ![c] = before - cost]
    /\ ledger' = Append(ledger, Txn(c, 0, sid, cost, "parking_charge", before, before - cost))
    /\ payments' = Append(payments,
           [session |-> sid, booking |-> 0, customer |-> c, amount |-> cost,
            payment_method |-> "balance", status |-> "completed",
            transaction_id |-> Len(ledger) + 1])
    /\ UNCHANGED bookings

\* tariff lookup and cost as end_parking_session computes them for an exit time
EndCost(sid, exit) ==
    IF spots[sessions[sid].spot].exists
    THEN SessionCost(spots[sessions[sid].spot].zone, sessions[sid].entry_time, exit)
    ELSE 0

NotActiveNever(sid) == FALSE

\* the status guard of end_parking_session
NotActive(sid) == sessions[sid].status # "active"

ExitNotAfterEntry(sid, exit) == exit <= sessions[sid].entry_time

\* the exit time guard of end_parking_session
ExitBeforeEntry(sid, exit) == exit < sessions[sid].entry_time

EndSessionResponse(c, sid, exit) ==
    IF ~OwnSession(c, sid) THEN "NotFound"
    ELSE IF NotActive(sid) THEN "InvalidState"
    ELSE IF ExitBeforeEntry(sid, exit) THEN "InvalidExitTime"
    ELSE LET b == sessions[sid].booking
             cost == EndCost(sid, exit)
         IN IF b # 0
            THEN IF bookings[b].estimated_cost = NoCost THEN "ServerError"
                 ELSE IF Difference(bookings[b].estimated_cost, cost) < 0
                         /\ Insufficient(balance[c], 0 - Difference(bookings[b].estimated_cost, cost))
                      THEN "InsufficientBalance"
                 ELSE IF Cardinality(PaymentsOfBooking(b)) > 1 THEN "ServerError"
                 ELSE "ok"
            ELSE IF Insufficient(balance[c], cost) THEN "InsufficientBalance"
                 ELSE "ok"

\* what a committed end_parking_session writes; `before` and `avail` are the
\* balance and the zone counter the request loaded
EndSessionCommit(c, sid, exit, before, avail) ==
    /\ CloseSession(sid, exit, EndCost(sid, exit), avail)
    /\ IF sessions[sid].booking # 0
       THEN SettleBooking(c, sid, sessions[sid].booking, EndCost(sid, exit), before)
       ELSE SettleWalkIn(c, sid, EndCost(sid, exit), before)
    /\ UNCHANGED now

EndSession(c, sid, exit) ==
    IF EndSessionResponse(c, sid, exit) # "ok" THEN Reject
    ELSE /\ EndSessionCommit(c, sid, exit, balance[c], available[spots[sessions[sid].spot].zone])
         /\ UNCHANGED req

\* ------------------------------------------------------------ admin: spots
SpotReferenced(s) ==
    \/ \E i \in 1..Len(bookings) : bookings[i].spot = s
    \/ \E i \in 1..Len(sessions) : sessions[i].spot = s

UpdateSpotResponse(s, z, active) == IF ~spots[s].exists THEN "NotFound" ELSE "ok"

\* update_parking_spot applies the payload fields: zone_id and is_active (never is_occupied)
UpdateSpot(s, z, active) ==
    IF UpdateSpotResponse(s, z, active) # "ok" THEN Reject
    ELSE /\ spots' = [spots EXCEPT ![s].zone = z, ![s].is_active = active]
         /\ UNCHANGED <<balance, ledger, bookings, sessions, payments, available, now, req>>

DeleteSpotResponse(s) ==
    IF ~spots[s].exists THEN "NotFound"
    ELSE IF spots[s].is_occupied THEN "Conflict"
    ELSE IF SpotReferenced(s) THEN "ServerError"
    ELSE "ok"

DeleteSpot(s) ==
    IF DeleteSpotResponse(s) # "ok" THEN Reject
    ELSE /\ spots' = [spots EXCEPT ![s].exists = FALSE]
         /\ UNCHANGED <<balance, ledger, bookings, sessions, payments, available, now, req>>

Next ==
    \/ Tick
    \/ \E c \in Customers, a \in TopupAmounts : Topup(c, a)
    \/ \E c \in Customers, v \in Vehicles, s \in Spots, w \in BookWindows :
          CreateBooking(c, v, s, w[1], w[2])
    \/ \E c \in Customers, b \in 1..MaxBookings : CancelBooking(c, b)
    \/ \E c \in Customers, v \in Vehicles, s \in Spots, b \in 0..MaxBookings, e \in EntryTimes :
          StartSession(c, v, s, b, e)
    \/ \E c \in Customers, sid \in 1..MaxSessions, x \in ExitTimes : EndSession(c, sid, x)

\* customer operations on the ledger, bookings and sessions
Spec == Init /\ [][Next]_vars

\* create_parking_spot checks the zone of the path and the spot numbers in it; the
\* row is built from the payload, whose zone_id need not be the path's.  A spot
\* name stands for a spot number, and the table holds one row per name.
CreateSpotResponse(s, z, zb) ==
    IF spots[s].exists /\ spots[s].zone = z THEN "BadRequest" ELSE "ok"

CreateSpot(s, z, zb, active) ==
    /\ spots[s].exists => spots[s].zone = z
    /\ IF CreateSpotResponse(s, z, zb) # "ok" THEN Reject
       ELSE /\ spots' = [spots EXCEPT ![s] =
                    [exists |-> TRUE, zone |-> zb, is_occupied |-> FALSE, is_active |-> active]]
            /\ UNCHANGED <<balance, ledger, bookings, sessions, payments, available, now, req>>

\* ParkingZone.available_spots as the model class computes it: the zone's spots
\* that are active and not occupied
LiveAvailable(z) ==
    Cardinality({s \in Spots : /\ spots[s].exists /\ spots[s].zone = z
                               /\ spots[s].is_active /\ ~spots[s].is_occupied})

NextSpots ==
    \/ Tick
    \/ \E c \in Customers, v \in Vehicles, s \in Spots, b \in 0..MaxBookings :
          StartSession(c, v, s, b, NoTime)
    \/ \E c \in Customers, sid \in 1..MaxSessions, x \in SpotExitTimes : EndSession(c, sid, x)
    \/ \E s \in Spots, z \in Zones, a \in BOOLEAN : UpdateSpot(s, z, a)
    \/ \E s \in Spots : DeleteSpot(s)

\* session operations together with the administration of spots
SpecSpots == Init /\ [][NextSpots]_vars

\* the lot while its spots are still being entered: s1 is there, s2 is not yet
InitLots ==
    /\ balance \in {f \in [Customers -> InitBalances] : f["c2"] = 300}
    /\ ledger = <<>>
    /\ bookings = <<SeedBooking>>
    /\ payments = <<SeedPayment>>
    /\ sessions = <<>>
    /\ spots = [s \in Spots |-> [exists |-> (s = "s1"), zone |-> "z1",
                                  is_occupied |-> FALSE, is_active |-> TRUE]]
    /\ available = [z \in Zones |-> IF z = "z1" THEN 2 ELSE 0]
    /\ now = 0
    /\ req = [p \in Procs |-> Idle]

NextLots ==
    \/ NextSpots
    \/ \E s \in Spots, z \in Zones, zb \in Zones, a \in BOOLEAN : CreateSpot(s, z, zb, a)

\* session operations together with the creation, update and deletion of spots
SpecLots == InitLots /\ [][NextLots]_vars

\* ------------------------------------------------- concurrent request workers
\* Each worker serves one request at a time in its own database session.  A
\* handler first loads rows and checks them, and writes at commit; under the
\* engine's default isolation (READ COMMITTED, no row locks) other requests can
\* commit in between, and the ORM writes the values computed from what it loaded.
ConcBalance == [c \in Customers |-> 300]

\* the initial database with every balance at 300
InitConc ==
    /\ balance = ConcBalance
    /\ ledger = <<>>
    /\ bookings = <<SeedBooking>>
    /\ payments = <<SeedPayment>>
    /\ sessions = <<>>
    /\ spots = [s \in Spots |-> [exists |-> TRUE, zone |-> "z1", is_occupied |-> FALSE, is_active |-> TRUE]]
    /\ available = [z \in Zones |-> IF z = "z1" THEN 2 ELSE 0]
    /\ now = 0
    /\ req = [p \in Procs |-> Idle]

Free(p) == req[p].pc # "loaded"

Answer(p, op, c, args, result) ==
    req' = [req EXCEPT ![p] = [pc |-> "done", op |-> op, customer |-> c, args |-> args,
                               read |-> <<>>, result |-> result]]

Loaded(p, op, c, args, read) ==
    req' = [req EXCEPT ![p] = [pc |-> "loaded", op |-> op, customer |-> c, args |-> args,
                               read |-> read, result |-> "none"]]

\* a request that passes its checks on the rows it loads goes on to commit;
\* one that fails them is answered with the error and writes nothing
LoadTopup(p, c, amount) ==
    /\ Free(p)
    /\ IF TopupResponse(c, amount) # "ok" THEN Reject
       ELSE Loaded(p, "topup", c, <<amount>>, <<balance[c]>>) /\ UNCHANGED <<db, now>>

LoadStartSession(p, c, v, s) ==
    /\ Free(p)
    /\ IF StartSessionResponse(c, v, s, 0, NoTime) # "ok" THEN Reject
       ELSE Loaded(p, "startSession", c, <<v, s>>, <<available[spots[s].zone]>>)
            /\ UNCHANGED <<db, now>>

LoadEndSession(p, c, sid, exit) ==
    /\ Free(p)
    /\ IF EndSessionResponse(c, sid, exit) # "ok" THEN Reject
       ELSE Loaded(p, "endSession", c, <<sid, exit>>,
                   <<balance[c], available[spots[sessions[sid].spot].zone]>>)
            /\ UNCHANGED <<db, now>>

\* commit: the writes computed from the loaded rows reach the database
Commit(p) ==
    /\ req[p].pc = "loaded"
    /\ LET r == req[p]
       IN CASE r.op = "topup" -> TopupCommit(r.customer, r.args[1], r.read[1])
            [] r.op = "startSession" -> StartSessionCommit(r.args[1], r.args[2], 0, NoTime, r.read[1])
            [] r.op = "endSession" -> EndSessionCommit(r.customer, r.args[1], r.args[2], r.read[1], r.read[2])
    /\ Answer(p, req[p].op, req[p].customer, req[p].args, "ok")

NextConc ==
    \/ \E p \in Procs, c \in Customers, a \in TopupAmounts : LoadTopup(p, c, a)
    \/ \E p \in Procs, c \in Customers, v \in Vehicles, s \in Spots : LoadStartSession(p, c, v, s)
    \/ \E p \in Procs, c \in Customers, sid \in 1..MaxSessions, x \in ExitTimes :
          LoadEndSession(p, c, sid, x)
    \/ \E p \in Procs : Commit(p)

\* two workers serving topup, session start and session end requests concurrently
SpecConc == InitConc /\ [][NextConc]_vars

\* ------------------------------------------------ booking desk: windows, status
RequestWindows == {<<0, 60>>, <<60, 180>>, <<30, 120>>, <<120, 90>>}
StatusInputs == BookingStatuses \cup {"paid"}

AvailableSpotsResponse(z, start, end) == IF start >= end THEN "InvalidInput" ELSE "ok"

\* the listing of get_available_spots_for_timerange: active spots of the zone
\* without a pending or confirmed booking overlapping the window
AvailableSpots(z, start, end) ==
    {s \in Spots :
        /\ spots[s].exists
        /\ spots[s].zone = z
        /\ spots[s].is_active
        /\ ConflictingBookings(s, start, end) = {}}

NextBookings ==
    \/ Tick
    \/ \E c \in Customers, v \in Vehicles, s \in Spots, w \in RequestWindows :
          CreateBooking(c, v, s, w[1], w[2])
    \/ \E c \in Customers, b \in 1..MaxBookings : CancelBooking(c, b)
    \/ \E c \in Customers, b \in 1..MaxBookings, st \in StatusInputs : UpdateBookingStatus(c, b, st)
    \/ \E c \in Customers, v \in Vehicles, s \in Spots, b \in 0..MaxBookings :
          StartSession(c, v, s, b, NoTime)
    \/ \E c \in Customers, sid \in 1..MaxSessions, x \in SpotExitTimes : EndSession(c, sid, x)

\* booking requests, cancellations and status updates next to session operations
SpecBookings == Init /\ [][NextBookings]_vars

\* ------------------------------------------- gate: arrivals against bookings
GatePoints == {54, 55, 180, 181}
GateStatuses == {"confirmed"}

\* the clock reaches the edges of the seed booking's admission window
TickGate ==
    /\ \E t \in GatePoints : t > now /\ now' = t
    /\ UNCHANGED <<db, req>>

NextGate ==
    \/ TickGate
    \/ \E c \in Customers, v \in Fleet, s \in Spots, b \in 0..MaxBookings :
          StartSession(c, v, s, b, NoTime)
    \/ \E c \in Customers, sid \in 1..MaxSessions, x \in SpotExitTimes : EndSession(c, sid, x)
    \/ \E c \in Customers, b \in 1..MaxBookings : CancelBooking(c, b)
    \/ \E c \in Customers, b \in 1..MaxBookings, st \in GateStatuses : UpdateBookingStatus(c, b, st)

\* arrivals of three vehicles around the admission window of a booking
SpecGate == InitConc /\ [][NextGate]_vars

\* ------------------------------------------------ sessions and top-ups only
NextRetry ==
    \/ Tick
    \/ \E c \in Customers, a \in TopupAmounts : Topup(c, a)
    \/ \E c \in Customers, v \in Vehicles, s \in Spots, b \in 0..MaxBookings, e \in EntryTimes :
          StartSession(c, v, s, b, e)
    \/ \E c \in Customers, sid \in 1..MaxSessions, x \in ExitTimes : EndSession(c, sid, x)

\* arrivals, departures and top-ups against the seeded booking
SpecRetry == Init /\ [][NextRetry]_vars

\* ------------------------------------------------ top-ups of any amount
TopupInputs == {-50, 0, 200}

NextTopup ==
    \/ Tick
    \/ \E c \in Customers, a \in TopupInputs : Topup(c, a)
    \/ \E c \in Customers, v \in Vehicles, s \in Spots, b \in 0..MaxBookings :
          StartSession(c, v, s, b, NoTime)
    \/ \E c \in Customers, sid \in 1..MaxSessions, x \in SpotExitTimes : EndSession(c, sid, x)

\* top-ups of negative, zero and positive amounts between sessions
SpecTopup == Init /\ [][NextTopup]_vars

\* ------------------------------------------ bookings that are used again
RefundExitTimes == {60, 120}

NextRefund ==
    \/ Tick
    \/ \E c \in Customers, v \in Vehicles, s \in Spots, b \in 0..MaxBookings :
          StartSession(c, v, s, b, NoTime)
    \/ \E c \in Customers, sid \in 1..MaxSessions, x \in RefundExitTimes : EndSession(c, sid, x)
    \/ \E c \in Customers, b \in 1..MaxBookings : CancelBooking(c, b)
    \/ \E c \in Customers, b \in 1..MaxBookings, st \in GateStatuses : UpdateBookingStatus(c, b, st)

\* sessions against a booking that is cancelled or set back to confirmed in between
SpecRefund == Init /\ [][NextRefund]_vars

\* ------------------------------------------------ exits at the edge of entry
EdgeExitTimes == {0, 30, 60}

NextExit ==
    \/ Tick
    \/ \E c \in Customers, v \in Vehicles, s \in Spots, b \in 0..MaxBookings, e \in EntryTimes :
          StartSession(c, v, s, b, e)
    \/ \E c \in Customers, sid \in 1..MaxSessions, x \in EdgeExitTimes : EndSession(c, sid, x)
    \/ \E c \in Customers, a \in TopupAmounts : Topup(c, a)

\* sessions that are ended at, before and after their entry time
SpecExit == Init /\ [][NextExit]_vars

\* ----------------------------------------------------------- cost quotes
Durations == {0, 59, 60, 90, 180, 1439, 1440, 1500, 2881}
HourlyRates == {0, 100}
DailyRates == {NoRate, 0, 150, 800, 1000}

Tariff(hourly, daily) == [present |-> TRUE, price_per_hour |-> hourly, price_per_day |-> daily]

\* calculate_parking_cost of the payments module: whole hours rounded up, the
\* daily rate only from 24 hours on, the hourly rate otherwise
PaymentCost(d, t) ==
    LET hours == CeilDiv(d, HourMinutes)
    IN IF HasDayRate(t) /\ hours >= 24
       THEN CeilDiv(hours, 24) * t.price_per_day
       ELSE hours * t.price_per_hour

\* a worker computes the cost of d minutes under a tariff, as session end
\* and as payment creation compute it
Quote(p, d, hourly, daily) ==
    /\ req' = [req EXCEPT ![p] = [pc |-> "done", op |-> "cost", customer |-> "c1",
                                   args |-> <<d, hourly, daily>>,
                                   read |-> <<TariffCost(d, Tariff(hourly, daily)),
                                              PaymentCost(d, Tariff(hourly, daily))>>,
                                   result |-> "ok"]]
    /\ UNCHANGED <<db, now>>

NextCost == \E p \in Procs, d \in Durations, h \in HourlyRates, dy \in DailyRates : Quote(p, d, h, dy)

\* cost quotes over durations and tariffs
SpecCost == InitConc /\ [][NextCost]_vars

\* ------------------------------------------- payments and notifications
PaymentStatuses == {"pending", "completed", "failed", "refunded"}
\* statuses that update requests carry; "paid" is not a payment status
PaymentStatusInputs == {"pending", "completed", "paid"}
\* transaction_id of the payload; 0 stands for an omitted one
PayloadTransactions == {0, 7}
\* the id the gateway issues for a processed payment
GatewayTransaction == 9
Desk == {"p1"}
PaymentIds == {1, 2}

OwnPayment(c, pid) == pid \in 1..Len(payments) /\ payments[pid].customer = c

\* the gateway is asked only when a payment that is not completed is set to completed
AsksGateway(pid, st) == st = "completed" /\ payments[pid].status # "completed"

UpdatePaymentStatusResponse(c, pid, st, approved) ==
    IF ~OwnPayment(c, pid) THEN "NotFound"
    ELSE IF st \notin PaymentStatuses THEN "BadRequest"
    ELSE IF AsksGateway(pid, st) /\ ~approved THEN "BadRequest"
    ELSE "ok"

ConfirmsBookingAlways(pid, st) ==
    /\ st = "completed"
    /\ payments[pid].booking \in 1..Len(bookings)

\* the booking of a completed payment is confirmed when it is pending
ConfirmsBooking(pid, st) ==
    /\ st = "completed"
    /\ payments[pid].booking \in 1..Len(bookings)
    /\ bookings[payments[pid].booking].status = "pending"

\* what a committed update_payment_status writes
UpdatePaymentStatusCommit(pid, st, txn) ==
    /\ payments' = [payments EXCEPT
                       ![pid].status = st,
                       ![pid].transaction_id =
                           IF AsksGateway(pid, st) THEN GatewayTransaction
                           ELSE IF txn # 0 THEN txn ELSE @]
    /\ bookings' = IF ConfirmsBooking(pid, st)
                   THEN [bookings EXCEPT ![payments[pid].booking].status = "confirmed"]
                   ELSE bookings
    /\ UNCHANGED <<balance, ledger, sessions, spots, available, now>>

\* NotificationService.send_*: True, or False after logging when its body raised
Notify(raised) == ~raised

AfterNotifyStrict(sent) == IF sent THEN "ok" ELSE "ServerError"

\* the handlers drop what send_* returns and go on to return the row
AfterNotify(sent) == "ok"

\* the worker at the desk takes a request and leaves its answer in req
Served(p, op, c, args, result) ==
    /\ req[p].pc = "idle"
    /\ req' = [req EXCEPT ![p] = [pc |-> "done", op |-> op, customer |-> c, args |-> args,
                                   read |-> <<>>, result |-> result]]

\* a refused request is answered with its error and writes nothing
Refused(p, op, c, args, result) ==
    /\ Served(p, op, c, args, result)
    /\ UNCHANGED <<db, now>>

Return(p) ==
    /\ req[p].pc = "done"
    /\ req' = [req EXCEPT ![p] = Idle]
    /\ UNCHANGED <<db, now>>

ServeCreateBooking(p, c, v, s, start, end, raised) ==
    /\ req[p].pc = "idle"
    /\ IF CreateBookingResponse(c, v, s, start, end) # "ok" THEN Reject
       ELSE /\ Len(bookings) < MaxBookings
            /\ CreateBookingCommit(c, v, s, start, end)
            /\ Served(p, "createBooking", c, <<v, s, start, end, raised>>, AfterNotify(Notify(raised)))

ServeStartSession(p, c, v, s, b, raised) ==
    /\ req[p].pc = "idle"
    /\ IF StartSessionResponse(c, v, s, b, NoTime) # "ok" THEN Reject
       ELSE /\ StartSessionCommit(v, s, b, NoTime, available[spots[s].zone])
            /\ Served(p, "startSession", c, <<v, s, b, raised>>, AfterNotify(Notify(raised)))

ServeEndSession(p, c, sid, exit, raised) ==
    /\ req[p].pc = "idle"
    /\ IF EndSessionResponse(c, sid, exit) # "ok" THEN Reject
       ELSE /\ EndSessionCommit(c, sid, exit, balance[c], available[spots[sessions[sid].spot].zone])
            /\ Served(p, "endSession", c, <<sid, exit, raised>>, AfterNotify(Notify(raised)))

\* send_payment_confirmation is called only for a payment that ends completed
ServeUpdatePaymentStatus(p, c, pid, st, txn, approved, raised) ==
    LET response == UpdatePaymentStatusResponse(c, pid, st, approved)
        args == <<pid, st, txn, approved, raised>>
    IN IF response # "ok" THEN Refused(p, "updatePaymentStatus", c, args, response)
       ELSE /\ UpdatePaymentStatusCommit(pid, st, txn)
            /\ Served(p, "updatePaymentStatus", c, args,
                      IF st = "completed" THEN AfterNotify(Notify(raised)) ELSE "ok")

\* the desk takes the next request once the last answer has been returned;
\* arrivals at the desk come with a booking
NextServe ==
    \/ \E p \in Desk : req[p].pc = "idle" /\ Tick
    \/ \E p \in Desk : Return(p)
    \/ \E p \in Desk, c \in Customers, v \in Vehicles, s \in Spots, w \in BookWindows, r \in BOOLEAN :
          ServeCreateBooking(p, c, v, s, w[1], w[2], r)
    \/ \E p \in Desk, c \in Customers, v \in Vehicles, s \in Spots, b \in 1..MaxBookings, r \in BOOLEAN :
          ServeStartSession(p, c, v, s, b, r)
    \/ \E p \in Desk, c \in Customers, sid \in 1..MaxSessions, x \in SpotExitTimes, r \in BOOLEAN :
          ServeEndSession(p, c, sid, x, r)
    \/ \E p \in Desk, c \in Customers, pid \in PaymentIds, st \in PaymentStatusInputs,
          txn \in PayloadTransactions, a \in BOOLEAN, r \in BOOLEAN :
          ServeUpdatePaymentStatus(p, c, pid, st, txn, a, r)
    \/ \E p \in Desk, c \in Customers, b \in 1..MaxBookings : req[p].pc = "idle" /\ CancelBooking(c, b)

\* one worker serving bookings, sessions and payment updates, each followed by
\* a notification that may fail
SpecServe == InitConc /\ [][NextServe]_vars

\* ------------------------------------------------------- payment creation
PayExitTimes == {120, 600}
PaymentAmounts == {100, 800, 900}
\* a balance that covers a capped day of parking
PayBalance == [c \in Customers |-> 900]
PaymentMethods == {"card"}

PaymentsOfSession(sid) == {i \in 1..Len(payments) : payments[i].session = sid}

PaymentExistsNever(sid) == FALSE

\* the duplicate check of create_payment
PaymentExists(sid) == PaymentsOfSession(sid) # {}

\* the amount create_payment computes for a completed session
CalculatedAmount(sid) ==
    PaymentCost(sessions[sid].exit_time - sessions[sid].entry_time,
                ZoneTariff[spots[sessions[sid].spot].zone])

CreatePaymentResponse(c, sid, amount) ==
    IF sid \notin 1..Len(sessions) THEN "NotFound"
    ELSE IF VehicleOwner[sessions[sid].vehicle] # c THEN "Forbidden"
    ELSE IF sessions[sid].status # "completed" THEN "BadRequest"
    ELSE IF Cardinality(PaymentsOfSession(sid)) > 1 THEN "ServerError"
    ELSE IF PaymentExists(sid) THEN "BadRequest"
    ELSE IF ~spots[sessions[sid].spot].exists THEN "NotFound"
    ELSE IF ~ZoneTariff[spots[sessions[sid].spot].zone].present THEN "BadRequest"
    ELSE IF amount # CalculatedAmount(sid) THEN "BadRequest"
    ELSE "ok"

\* what a committed create_payment writes
CreatePaymentCommit(c, sid, method) ==
    /\ payments' = Append(payments,
           [session |-> sid, booking |-> 0, customer |-> c, amount |-> CalculatedAmount(sid),
            payment_method |-> method, status |-> "pending", transaction_id |-> 0])
    /\ UNCHANGED <<balance, ledger, bookings, sessions, spots, available, now>>

CreatePayment(c, sid, amount, method) ==
    IF CreatePaymentResponse(c, sid, amount) # "ok" THEN Reject
    ELSE /\ Len(payments) < MaxSessions + 1
         /\ CreatePaymentCommit(c, sid, method)
         /\ UNCHANGED req

\* the database with the seeded booking, with or without a Payment for it
InitPay ==
    /\ balance = PayBalance
    /\ ledger = <<>>
    /\ bookings = <<SeedBooking>>
    /\ payments \in {<<>>, <<SeedPayment>>}
    /\ sessions = <<>>
    /\ spots = [s \in Spots |-> [exists |-> TRUE, zone |-> "z1", is_occupied |-> FALSE, is_active |-> TRUE]]
    /\ available = [z \in Zones |-> IF z = "z1" THEN 2 ELSE 0]
    /\ now = 0
    /\ req = [p \in Procs |-> Idle]

NextPay ==
    \/ Tick
    \/ \E c \in Customers, v \in Vehicles, s \in Spots, b \in 0..MaxBookings :
          StartSession(c, v, s, b, NoTime)
    \/ \E c \in Customers, sid \in 1..MaxSessions, x \in PayExitTimes : EndSession(c, sid, x)
    \/ \E c \in Customers, b \in 1..MaxBookings, st \in GateStatuses : UpdateBookingStatus(c, b, st)
    \/ \E c \in Customers, sid \in 1..MaxSessions, a \in PaymentAmounts, m \in PaymentMethods :
          CreatePayment(c, sid, a, m)

\* sessions that end and are then paid for explicitly
SpecPay == InitPay /\ [][NextPay]_vars

\* ================================================================ claims
Signed(t) == IF t.type \in {"topup", "refund"} THEN t.amount ELSE 0 - t.amount

TxnsOf(c) == {i \in 1..Len(ledger) : ledger[i].customer = c}

LastTxnOf(c) == CHOOSE i \in TxnsOf(c) : \A j \in TxnsOf(c) : j <= i

ActiveOn(s) == {i \in 1..Len(sessions) : sessions[i].spot = s /\ sessions[i].status = "active"}

DebitDue(sid, exit) ==
    LET b == sessions[sid].booking
        cost == EndCost(sid, exit)
    IN IF b = 0 THEN cost
       ELSE IF cost > bookings[b].estimated_cost THEN cost - bookings[b].estimated_cost ELSE 0

Endable(c, sid, exit) ==
    /\ OwnSession(c, sid)
    /\ sessions[sid].status = "active"
    /\ exit >= sessions[sid].entry_time
    /\ sessions[sid].booking # 0 => bookings[sessions[sid].booking].estimated_cost # NoCost

C3_OccupiedIffActiveSession ==
    \A s \in Spots :
       /\ Cardinality(ActiveOn(s)) <= 1
       /\ spots[s].exists => (spots[s].is_occupied <=> ActiveOn(s) # {})

\* a spot in its second occupancy, next to a spot the administrator has changed
C3_Witness ==
    /\ \E i, j \in 1..Len(sessions) :
          /\ sessions[i].spot = sessions[j].spot
          /\ sessions[i].status = "completed"
          /\ sessions[j].status = "active"
          /\ spots[sessions[j].spot].is_occupied
    /\ \E s \in Spots : ~spots[s].is_active \/ spots[s].zone # "z1"

\* signed sum of the ledger rows of customer c among the first n rows
RECURSIVE SignedSum(_, _)
SignedSum(c, n) ==
    IF n = 0 THEN 0
    ELSE SignedSum(c, n - 1) + (IF ledger[n].customer = c THEN Signed(ledger[n]) ELSE 0)

\* the latest requests of two workers both started a session on the same spot
BothStarted(p, q) ==
    /\ p # q
    /\ req[p].op = "startSession" /\ req[p].result = "ok"
    /\ req[q].op = "startSession" /\ req[q].result = "ok"
    /\ req[p].args = req[q].args

\* C4: of two concurrent startSession calls on one unoccupied spot exactly one
\* succeeds; no interleaving leaves two active sessions on the spot.
C4_ConcurrentStartExclusive ==
    /\ \A s \in Spots : Cardinality(ActiveOn(s)) <= 1
    /\ \A p, q \in Procs : BothStarted(p, q) => ActiveOn(req[p].args[2]) = {}

\* C5: under any interleaving of one customer's balance operations no update is
\* lost: once no request is in flight the balance is the initial balance plus
\* the signed sum of the committed rows, and it is never negative.
C5_NoLostBalanceUpdate ==
    \A c \in Customers :
       /\ balance[c] >= 0
       /\ (\A p \in Procs : Free(p)) => balance[c] = ConcBalance[c] + SignedSum(c, Len(ledger))

\* the cost of a reserved window on a spot under the spot's current tariff
WindowCost(s, start, end) == SessionCost(spots[s].zone, start, end)

\* C6: a successful createBooking leaves a pending booking with estimated_cost
\* set, the balance reduced by it, one booking_charge row of that amount and one
\* completed balance Payment bound to the booking.
C6_CreateBookingCharges ==
    [][Len(bookings') = Len(bookings) + 1 =>
         LET b == Len(bookings')
             nb == bookings'[b]
             est == WindowCost(nb.spot, nb.start, nb.end)
         IN /\ nb.status = "pending"
            /\ nb.estimated_cost = est
            /\ balance'[nb.customer] = balance[nb.customer] - est
            /\ Cardinality({i \in 1..Len(ledger') :
                   /\ ledger'[i].booking = b
                   /\ ledger'[i].type = "booking_charge"
                   /\ ledger'[i].amount = est}) = 1
            /\ Cardinality({i \in 1..Len(payments') :
                   /\ payments'[i].booking = b
                   /\ payments'[i].status = "completed"
                   /\ payments'[i].payment_method = "balance"}) = 1]_vars

\* C7: createBooking by a customer whose balance is below the estimated cost
\* creates nothing and leaves the balance as it was.
C7_CreateBookingNeedsFunds ==
    [][\A c \in Customers, v \in Vehicles, s \in Spots, w \in BookWindows :
          (balance[c] < WindowCost(s, w[1], w[2]) /\ CreateBooking(c, v, s, w[1], w[2]))
             => UNCHANGED db]_vars

\* C8: cancelBooking of a pending or confirmed booking credits the full
\* estimated_cost with a refund row and sets the status to cancelled.
C8_CancelRefunds ==
    [][\A c \in Customers, b \in 1..Len(bookings) :
          (/\ OwnBooking(c, b)
           /\ bookings[b].status \in {"pending", "confirmed"}
           /\ bookings[b].estimated_cost # NoCost
           /\ bookings'[b].status = "cancelled")
             => /\ balance'[c] = balance[c] + bookings[b].estimated_cost
                /\ Len(ledger') = Len(ledger) + 1
                /\ ledger'[Len(ledger')].type = "refund"
                /\ ledger'[Len(ledger')].booking = b
                /\ ledger'[Len(ledger')].amount = bookings[b].estimated_cost]_vars

\* an overstay on a booked session whose penalty the balance cannot cover
PenaltyUnaffordable(c, sid, exit) ==
    /\ Endable(c, sid, exit)
    /\ sessions[sid].booking # 0
    /\ EndCost(sid, exit) > bookings[sessions[sid].booking].estimated_cost
    /\ balance[c] < EndCost(sid, exit) - bookings[sessions[sid].booking].estimated_cost

\* C9: ending a booked session whose penalty exceeds the balance is answered
\* with InsufficientBalance and changes nothing: session, spot, booking,
\* balance and ledger stay as they were.
C9_PenaltyRefusedAtomically ==
    /\ [](\A c \in Customers, sid \in 1..Len(sessions), x \in ExitTimes :
            PenaltyUnaffordable(c, sid, x) => EndSessionResponse(c, sid, x) = "InsufficientBalance")
    /\ [][\A c \in Customers, sid \in 1..Len(sessions), x \in ExitTimes :
            (PenaltyUnaffordable(c, sid, x) /\ EndSession(c, sid, x)) => UNCHANGED db]_vars

\* an active booked session on an occupied spot, with a positive balance too
\* small for the penalty of a late exit
C9_Witness ==
    \E c \in Customers, sid \in 1..Len(sessions), x \in ExitTimes :
       /\ PenaltyUnaffordable(c, sid, x)
       /\ balance[c] > 0
       /\ spots[sessions[sid].spot].is_occupied
       /\ sessions[sid].exit_time = NoTime

\* C10: a successful end of a booked session refunds estimated_cost - total_cost
\* when the stay was cheaper, charges total_cost - estimated_cost as a penalty
\* when it was dearer, and completes booking and session and frees the spot.
C10_SettlementAgainstBooking ==
    [][\A sid \in 1..Len(sessions) :
          (/\ sessions[sid].status = "active"
           /\ sessions'[sid].status = "completed"
           /\ sessions[sid].booking # 0)
             => LET b == sessions[sid].booking
                    c == VehicleOwner[sessions[sid].vehicle]
                    est == bookings[b].estimated_cost
                    cost == sessions'[sid].total_cost
                IN /\ cost = EndCost(sid, sessions'[sid].exit_time)
                   /\ bookings'[b].status = "completed"
                   /\ ~spots'[sessions[sid].spot].is_occupied
                   /\ cost < est =>
                        /\ balance' = [balance EXCEPT ![c] = @ + (est - cost)]
                        /\ ledger' = Append(ledger,
                              Txn(c, b, sid, est - cost, "refund", balance[c], balance[c] + (est - cost)))
                   /\ cost > est =>
                        /\ balance[c] >= cost - est
                        /\ balance' = [balance EXCEPT ![c] = @ - (cost - est)]
                        /\ ledger' = Append(ledger,
                              Txn(c, b, sid, cost - est, "penalty", balance[c], balance[c] - (cost - est)))
                   /\ cost = est => (balance' = balance /\ ledger' = ledger)]_vars

\* a booked session has ended early and its refund sits in the ledger
C10_Witness ==
    \E i \in 1..Len(ledger) :
       /\ ledger[i].type = "refund"
       /\ ledger[i].booking # 0
       /\ ledger[i].session # 0
       /\ sessions[ledger[i].session].status = "completed"
       /\ bookings[ledger[i].booking].status = "completed"
       /\ ledger[i].amount = bookings[ledger[i].booking].estimated_cost
                                - sessions[ledger[i].session].total_cost

\* a walk-in session the customer cannot pay for at this exit time
WalkInUnaffordable(c, sid, exit) ==
    /\ Endable(c, sid, exit)
    /\ sessions[sid].booking = 0
    /\ balance[c] < EndCost(sid, exit)

C12_EndCompletedRejected ==
    /\ [](\A c \in Customers, sid \in 1..Len(sessions), x \in ExitTimes :
            (OwnSession(c, sid) /\ sessions[sid].status = "completed")
               => EndSessionResponse(c, sid, x) = "InvalidState")
    /\ [][\A c \in Customers, sid \in 1..Len(sessions), x \in ExitTimes :
            (OwnSession(c, sid) /\ sessions[sid].status = "completed" /\ EndSession(c, sid, x))
               => UNCHANGED db]_vars
    /\ [][\A sid \in 1..Len(sessions) :
            sessions[sid].status = "completed" => sessions'[sid] = sessions[sid]]_vars

\* a completed, settled session while the ledger still has room for a second charge
C12_Witness ==
    \E sid \in 1..Len(sessions), i \in 1..Len(ledger) :
       /\ sessions[sid].status = "completed"
       /\ sessions[sid].total_cost > 0
       /\ ledger[i].session = sid
       /\ Len(ledger) < MaxTxns
       /\ balance[VehicleOwner[sessions[sid].vehicle]] >= sessions[sid].total_cost

\* C13: cancelBooking on a cancelled or completed booking is answered with
\* AlreadyTerminal and leaves booking status, balance and ledger unchanged.
C13_CancelTerminalRejected ==
    /\ [](\A c \in Customers, b \in 1..Len(bookings) :
            (OwnBooking(c, b) /\ bookings[b].status \in {"cancelled", "completed"})
               => CancelBookingResponse(c, b) = "AlreadyTerminal")
    /\ [][\A c \in Customers, b \in 1..Len(bookings) :
            (/\ OwnBooking(c, b)
             /\ bookings[b].status \in {"cancelled", "completed"}
             /\ CancelBooking(c, b))
               => UNCHANGED <<bookings, balance, ledger>>]_vars

\* C14: cancelled and completed are terminal: a booking in one of them never
\* changes status again.
C14_TerminalBookingStates ==
    [][\A b \in 1..Len(bookings) :
          bookings[b].status \in {"cancelled", "completed"}
             => bookings'[b].status = bookings[b].status]_vars

\* the bookings that hold their spot
Holding == {i \in 1..Len(bookings) : bookings[i].status \in {"pending", "confirmed"}}

\* C15: no two pending or confirmed bookings on the same spot overlap.
C15_NoOverlappingBookings ==
    \A i, j \in Holding :
       (i # j /\ bookings[i].spot = bookings[j].spot)
          => ~(bookings[i].start < bookings[j].end /\ bookings[i].end > bookings[j].start)

\* a request that passes the vehicle and spot checks of create_booking
Bookable(c, v, s) == VehicleOwner[v] = c /\ spots[s].exists /\ spots[s].is_active

\* the pending or confirmed bookings on spot s that overlap the window
Overlapping(s, start, end) ==
    {i \in Holding : bookings[i].spot = s /\ bookings[i].start < end /\ bookings[i].end > start}

\* C16: createBooking is answered with Conflict and changes nothing whenever
\* one or more pending or confirmed bookings on the spot overlap the window.
C16_ConflictForAnyOverlap ==
    /\ [](\A c \in Customers, v \in Vehicles, s \in Spots, w \in RequestWindows :
            (Bookable(c, v, s) /\ Overlapping(s, w[1], w[2]) # {})
               => CreateBookingResponse(c, v, s, w[1], w[2]) = "Conflict")
    /\ [][\A c \in Customers, v \in Vehicles, s \in Spots, w \in RequestWindows :
            (Bookable(c, v, s) /\ Overlapping(s, w[1], w[2]) # {} /\ CreateBooking(c, v, s, w[1], w[2]))
               => UNCHANGED db]_vars

\* every pending or confirmed booking on spot s ends by the window's start or
\* starts at or after its end
ClearOf(s, start, end) ==
    \A i \in Holding :
       bookings[i].spot = s => (bookings[i].end <= start \/ bookings[i].start >= end)

\* C17: a window that only touches the pending or confirmed bookings of a spot
\* (or meets only cancelled or completed ones) is not rejected for conflict,
\* and the listing of available spots for the window contains the spot.
C17_BackToBackAllowed ==
    \A c \in Customers, v \in Vehicles, s \in Spots, w \in RequestWindows :
       (Bookable(c, v, s) /\ ClearOf(s, w[1], w[2]))
          => /\ CreateBookingResponse(c, v, s, w[1], w[2]) \notin {"Conflict", "ServerError"}
             /\ AvailableSpotsResponse(spots[s].zone, w[1], w[2]) = "ok"
                   => s \in AvailableSpots(spots[s].zone, w[1], w[2])

\* a booking was accepted that ends exactly when an earlier booking of the
\* same spot begins
C17_Witness ==
    \E i, j \in Holding :
       /\ i > j
       /\ bookings[i].spot = bookings[j].spot
       /\ bookings[i].end = bookings[j].start
       /\ spots[bookings[i].spot].is_active

\* C18: createBooking with start >= end or start < now is answered with
\* InvalidInput and changes nothing, also when a booking on the spot overlaps.
C18_InvalidTimesRejected ==
    /\ [](\A c \in Customers, v \in Vehicles, s \in Spots, w \in RequestWindows :
            (Bookable(c, v, s) /\ (w[1] >= w[2] \/ w[1] < now))
               => CreateBookingResponse(c, v, s, w[1], w[2]) = "InvalidInput")
    /\ [][\A c \in Customers, v \in Vehicles, s \in Spots, w \in RequestWindows :
            (Bookable(c, v, s) /\ (w[1] >= w[2] \/ w[1] < now) /\ CreateBooking(c, v, s, w[1], w[2]))
               => UNCHANGED db]_vars

\* a session start request that gets as far as the booking lookup
Admissible(c, v, s) == VehicleOwner[v] = c /\ spots[s].exists /\ ~spots[s].is_occupied

\* C19: startSession with a booking succeeds only for an existing booking of
\* the caller with the same vehicle and spot that is neither cancelled nor
\* completed; success leaves the booking confirmed; a failed call creates no
\* session and changes neither the spot nor the booking.
C19_StartAgainstBooking ==
    /\ [](\A c \in Customers, v \in Fleet, s \in Spots, b \in 1..MaxBookings :
            StartSessionResponse(c, v, s, b, NoTime) = "ok"
               => /\ b <= Len(bookings)
                  /\ bookings[b].customer = c
                  /\ bookings[b].vehicle = v
                  /\ bookings[b].spot = s
                  /\ bookings[b].status \in {"pending", "confirmed"})
    /\ [][(Len(sessions') = Len(sessions) + 1 /\ sessions'[Len(sessions')].booking # 0)
            => LET n == sessions'[Len(sessions')]
                   b == n.booking
               IN /\ b <= Len(bookings)
                  /\ bookings[b].customer = VehicleOwner[n.vehicle]
                  /\ bookings[b].vehicle = n.vehicle
                  /\ bookings[b].spot = n.spot
                  /\ bookings[b].status \in {"pending", "confirmed"}
                  /\ bookings'[b].status = "confirmed"
                  /\ ~spots[n.spot].is_occupied /\ spots'[n.spot].is_occupied]_vars
    /\ [][\A c \in Customers, v \in Fleet, s \in Spots, b \in 1..MaxBookings :
            (StartSessionResponse(c, v, s, b, NoTime) # "ok" /\ StartSession(c, v, s, b, NoTime))
               => UNCHANGED <<sessions, spots, bookings>>]_vars

\* sessions were started against a pending and against an already confirmed
\* booking, while the owner's other vehicle is registered too
C19_Witness ==
    /\ Len(sessions) = 2
    /\ sessions[1].booking = 1 /\ sessions[1].status = "completed"
    /\ sessions[2].booking = 1 /\ sessions[2].status = "active"
    /\ bookings[1].status = "confirmed"
    /\ \E v \in Fleet : v # bookings[1].vehicle /\ VehicleOwner[v] = bookings[1].customer

\* C20: startSession against a booking is answered with TooEarly more than
\* 5 minutes before start_time and with BookingExpired after end_time; exactly
\* 5 minutes before start_time and exactly at end_time are inside the window;
\* a refused call creates no session and changes neither spot nor booking.
C20_AdmissionWindow ==
    /\ [](\A c \in Customers, v \in Fleet, s \in Spots, b \in 1..Len(bookings) :
            (/\ Admissible(c, v, s)
             /\ bookings[b].customer = c /\ bookings[b].vehicle = v /\ bookings[b].spot = s)
               => LET r == StartSessionResponse(c, v, s, b, NoTime)
                  IN /\ now < bookings[b].start - 5 => r = "TooEarly"
                     /\ now > bookings[b].end => r = "BookingExpired"
                     /\ (now >= bookings[b].start - 5 /\ now <= bookings[b].end)
                           => r \notin {"TooEarly", "BookingExpired"})
    /\ [][\A c \in Customers, v \in Fleet, s \in Spots, b \in 1..Len(bookings) :
            (/\ StartSessionResponse(c, v, s, b, NoTime) \in {"TooEarly", "BookingExpired"}
             /\ StartSession(c, v, s, b, NoTime))
               => UNCHANGED <<sessions, spots, bookings>>]_vars
    /\ [][(Len(sessions') = Len(sessions) + 1 /\ sessions'[Len(sessions')].booking # 0)
            => LET b == sessions'[Len(sessions')].booking
               IN now >= bookings[b].start - 5 /\ now <= bookings[b].end]_vars

\* a session admitted exactly 5 minutes before its booking's start, seen when
\* the booking has expired
C20_Witness ==
    /\ \E i \in 1..Len(sessions) :
          /\ sessions[i].booking # 0
          /\ sessions[i].entry_time = bookings[sessions[i].booking].start - 5
    /\ now > bookings[1].end

\* C21: endSession with an exit_time before the entry_time is answered with
\* InvalidExitTime and changes nothing; an exit_time equal to the entry_time
\* is accepted, and no completed session has its exit before its entry.
C21_ExitNotBeforeEntry ==
    /\ [](\A c \in Customers, sid \in 1..Len(sessions), x \in EdgeExitTimes :
            (OwnSession(c, sid) /\ sessions[sid].status = "active")
               => /\ x < sessions[sid].entry_time => EndSessionResponse(c, sid, x) = "InvalidExitTime"
                  /\ x = sessions[sid].entry_time => EndSessionResponse(c, sid, x) = "ok")
    /\ [][\A c \in Customers, sid \in 1..Len(sessions), x \in EdgeExitTimes :
            (/\ OwnSession(c, sid)
             /\ sessions[sid].status = "active"
             /\ x < sessions[sid].entry_time
             /\ EndSession(c, sid, x))
               => UNCHANGED db]_vars
    /\ [](\A sid \in 1..Len(sessions) :
            sessions[sid].status = "completed" => sessions[sid].exit_time >= sessions[sid].entry_time)

\* a session that was ended at its entry time, next to an active session
\* that entered later than an exit time on offer
C21_Witness ==
    /\ \E sid \in 1..Len(sessions) :
          /\ sessions[sid].status = "completed"
          /\ sessions[sid].exit_time = sessions[sid].entry_time
    /\ \E sid \in 1..Len(sessions), x \in EdgeExitTimes :
          sessions[sid].status = "active" /\ x < sessions[sid].entry_time

\* the quotes on record
Quoted == {p \in Procs : req[p].op = "cost"}

\* C22: below 1440 minutes the cost is ceil(d/60) * hourly, capped at the
\* daily rate whenever a daily rate is set (0 included) and the product
\* exceeds it.
C22_HourlyCostWithDailyCap ==
    \A p \in Quoted :
       LET d == req[p].args[1]
           hourly == req[p].args[2]
           daily == req[p].args[3]
           product == ((d + 59) \div 60) * hourly
       IN d < 1440 =>
            req[p].read[1] = IF daily # NoRate /\ product > daily THEN daily ELSE product

\* C23: from 1440 minutes on the cost is ceil(d/1440) * daily with a daily
\* rate and ceil(d/1440) * 24 * hourly without one, both at session end and
\* at payment creation.
C23_DailyCostEverywhere ==
    \A p \in Quoted :
       LET d == req[p].args[1]
           hourly == req[p].args[2]
           daily == req[p].args[3]
           days == (d + 1439) \div 1440
           due == IF daily # NoRate THEN days * daily ELSE days * 24 * hourly
       IN d >= 1440 => (req[p].read[1] = due /\ req[p].read[2] = due)

\* the session sits on a spot whose zone has no tariff
Untariffed(sid) ==
    /\ spots[sessions[sid].spot].exists
    /\ ~ZoneTariff[spots[sessions[sid].spot].zone].present

\* C24: endSession on a spot whose zone has no tariff fails with
\* ZoneHasNoTariff or TariffNotFound; no session is settled at a cost of 0
\* for want of a tariff.
C24_NoTariffNoSettlement ==
    /\ [](\A c \in Customers, sid \in 1..Len(sessions), x \in SpotExitTimes :
            (Endable(c, sid, x) /\ Untariffed(sid))
               => EndSessionResponse(c, sid, x) \in {"ZoneHasNoTariff", "TariffNotFound"})
    /\ [][\A sid \in 1..Len(sessions) :
            (sessions[sid].status = "active" /\ Untariffed(sid))
               => sessions'[sid].status = "active"]_vars

\* C25: once the balance covers the debit an endSession that failed with
\* InsufficientBalance succeeds on retry with the same exit_time: the failed
\* attempt changed nothing, and after a topup that reaches the required
\* amount the same call is accepted.
C25_RetryAfterTopup ==
    /\ [](\A c \in Customers, sid \in 1..Len(sessions), x \in ExitTimes :
            (Endable(c, sid, x) /\ balance[c] >= DebitDue(sid, x))
               => EndSessionResponse(c, sid, x) = "ok")
    /\ [][\A c \in Customers, sid \in 1..Len(sessions), x \in ExitTimes :
            (/\ Endable(c, sid, x)
             /\ EndSessionResponse(c, sid, x) = "InsufficientBalance"
             /\ EndSession(c, sid, x))
               => UNCHANGED db]_vars
    /\ [][\A c \in Customers, sid \in 1..Len(sessions), x \in ExitTimes :
            (/\ Endable(c, sid, x)
             /\ EndSessionResponse(c, sid, x) = "InsufficientBalance"
             /\ \E a \in TopupAmounts : Topup(c, a)
             /\ balance'[c] >= DebitDue(sid, x))
               => /\ sessions' = sessions
                  /\ spots' = spots
                  /\ EndSessionResponse(c, sid, x)' = "ok"]_vars

\* a session settled by a debit that the balance could not cover before the
\* topup recorded just ahead of it
C25_Witness ==
    \E i, j \in 1..Len(ledger) :
       /\ j = i + 1
       /\ ledger[i].customer = ledger[j].customer
       /\ ledger[i].type = "topup"
       /\ ledger[j].type \in {"penalty", "parking_charge"}
       /\ ledger[j].amount > ledger[i].balance_before
       /\ ledger[j].amount = ledger[i].balance_after
       /\ sessions[ledger[j].session].status = "completed"
       /\ ~spots[sessions[ledger[j].session].spot].is_occupied

\* the rows that belong to customer c
BookingsOf(c) == {<<i, bookings[i]>> : i \in {j \in 1..Len(bookings) : bookings[j].customer = c}}

SessionsOf(c) ==
    {<<i, sessions[i]>> : i \in {j \in 1..Len(sessions) : VehicleOwner[sessions[j].vehicle] = c}}

\* the step is one of customer c's own calls
OwnCall(c) ==
    \/ \E b \in 1..MaxBookings : CancelBooking(c, b)
    \/ \E b \in 1..MaxBookings, st \in GateStatuses : UpdateBookingStatus(c, b, st)
    \/ \E v \in Fleet, s \in Spots, b \in 0..MaxBookings : StartSession(c, v, s, b, NoTime)
    \/ \E sid \in 1..MaxSessions, x \in SpotExitTimes : EndSession(c, sid, x)

\* C26: a call on a booking or session of another customer, or with another
\* customer's vehicle, fails and changes nothing; a customer's balance,
\* bookings and sessions change only in that customer's own calls.
C26_OwnershipIsolation ==
    /\ [](\A c \in Customers :
            /\ \A b \in 1..Len(bookings) :
                  bookings[b].customer # c
                     => /\ CancelBookingResponse(c, b) = "NotFound"
                        /\ \A st \in BookingStatuses : UpdateBookingStatusResponse(c, b, st) = "NotFound"
            /\ \A v \in Fleet, s \in Spots, b \in 0..MaxBookings :
                  (VehicleOwner[v] # c \/ (b \in 1..Len(bookings) /\ bookings[b].customer # c))
                     => StartSessionResponse(c, v, s, b, NoTime) \in {"NotFound", "Conflict"}
            /\ \A sid \in 1..Len(sessions), x \in SpotExitTimes :
                  VehicleOwner[sessions[sid].vehicle] # c
                     => EndSessionResponse(c, sid, x) = "NotFound")
    /\ [][\A c \in Customers :
            (balance'[c] # balance[c] \/ BookingsOf(c)' # BookingsOf(c) \/ SessionsOf(c)' # SessionsOf(c))
               => OwnCall(c)]_vars

\* both customers have parked and paid, and a booking of one is open to
\* calls by the other
C26_Witness ==
    /\ \E i, j \in 1..Len(sessions) :
          /\ VehicleOwner[sessions[i].vehicle] = "c1"
          /\ VehicleOwner[sessions[j].vehicle] = "c2"
          /\ sessions[j].status = "completed"
          /\ sessions[i].status = "active"
    /\ balance["c2"] < ConcBalance["c2"]
    /\ \E b \in 1..Len(bookings) : bookings[b].customer = "c1" /\ bookings[b].status = "confirmed"

\* C27: the ledger is append-only: in every step it keeps every row it had,
\* unchanged and in place, and at most gains rows at the end.
C27_LedgerAppendOnly ==
    [][/\ Len(ledger') >= Len(ledger)
       /\ \A i \in 1..Len(ledger) : ledger'[i] = ledger[i]]_vars

\* rows written by topup and by session settlement lie one after the other
C27_Witness ==
    /\ Len(ledger) = MaxTxns
    /\ \E i, j \in 1..Len(ledger) :
          /\ i < j
          /\ ledger[i].type \in {"refund", "penalty", "parking_charge"}
          /\ ledger[j].type = "topup"

\* C28: in every reachable state and for every zone, available_spots (the live
\* count of the zone's free active spots, and the counter the session handlers
\* keep) lies between 0 and the zone's total_spots.
C28_AvailableWithinTotal ==
    \A z \in Zones :
        /\ LiveAvailable(z) \in 0..ZoneTotal[z]
        /\ available[z] \in 0..ZoneTotal[z]

\* the requests the desk has just answered in this step
Answering(p) == req[p].pc = "idle" /\ req'[p].pc = "done"

\* C29: a notification that fails after createBooking, startSession, endSession
\* or a payment completion undoes nothing: the step writes exactly what the
\* handler commits, whatever the outcome of the dispatch, and the request is
\* answered with success.
C29_NotificationNeverUndoes ==
    [][\A p \in Desk :
          Answering(p) =>
             LET r == req'[p]
             IN CASE r.op = "createBooking" ->
                       /\ r.result = "ok"
                       /\ CreateBookingCommit(r.customer, r.args[1], r.args[2], r.args[3], r.args[4])
                  [] r.op = "startSession" ->
                       /\ r.result = "ok"
                       /\ StartSessionCommit(r.args[1], r.args[2], r.args[3], NoTime,
                                             available[spots[r.args[2]].zone])
                  [] r.op = "endSession" ->
                       /\ r.result = "ok"
                       /\ EndSessionCommit(r.customer, r.args[1], r.args[2], balance[r.customer],
                                           available[spots[sessions[r.args[1]].spot].zone])
                  [] r.op = "updatePaymentStatus" ->
                       (/\ r.args[2] = "completed"
                        /\ UpdatePaymentStatusResponse(r.customer, r.args[1], r.args[2], r.args[4]) = "ok")
                       => /\ r.result = "ok"
                          /\ UpdatePaymentStatusCommit(r.args[1], r.args[2], r.args[3])
                  [] OTHER -> TRUE]_vars

\* a session was ended and settled although its notification failed
C29_Witness ==
    \E p \in Desk :
        /\ req[p].pc = "done"
        /\ req[p].op = "endSession"
        /\ req[p].args[3]
        /\ req[p].result = "ok"
        /\ sessions[req[p].args[1]].status = "completed"
        /\ ~spots[sessions[req[p].args[1]].spot].is_occupied

\* C30: an update of a payment changes a booking's status only from pending to
\* confirmed, and only for the booking of the payment when the payment ends
\* completed; an update the gateway declines, like any refused one, leaves
\* every booking as it was, and confirmed, cancelled and completed bookings
\* are never changed.
C30_PaymentConfirmsOnlyPending ==
    [][\A p \in Desk :
          (Answering(p) /\ req'[p].op = "updatePaymentStatus") =>
             LET r == req'[p]
                 pid == r.args[1]
             IN /\ Len(bookings') = Len(bookings)
                /\ r.result # "ok" => bookings' = bookings
                /\ \A b \in 1..Len(bookings) :
                      bookings'[b] # bookings[b] =>
                         /\ bookings[b].status = "pending"
                         /\ bookings'[b] = [bookings[b] EXCEPT !.status = "confirmed"]
                         /\ payments[pid].booking = b
                         /\ payments'[pid].status = "completed"
                         /\ r.args[2] = "completed"]_vars

\* the seed booking was confirmed by completing its payment, with no session started
C30_Witness ==
    \E p \in Desk :
        /\ req[p].pc = "done"
        /\ req[p].op = "updatePaymentStatus"
        /\ req[p].args[2] = "completed"
        /\ req[p].result = "ok"
        /\ payments[req[p].args[1]].booking = 1
        /\ payments[req[p].args[1]].status = "completed"
        /\ bookings[1].status = "confirmed"
        /\ sessions = <<>>

\* what the first n ledger rows charge for booking b: charges and penalties
\* count up, refunds down
RECURSIVE NetCharge(_, _, _)
NetCharge(rows, b, n) ==
    IF n = 0 THEN 0
    ELSE NetCharge(rows, b, n - 1)
         + (IF rows[n].booking # b THEN 0
            ELSE IF rows[n].type = "refund" THEN 0 - rows[n].amount
            ELSE rows[n].amount)

\* the sessions this step has ended that came from a booking
EndedBooked == {sid \in 1..Len(sessions) :
                   /\ sessions[sid].status = "active"
                   /\ sessions[sid].booking # 0}

C32_OnePaymentPerSession ==
    \A sid \in 1..Len(sessions) :
        /\ Cardinality(PaymentsOfSession(sid)) <= 1
        /\ (sessions[sid].status # "completed" \/ PaymentsOfSession(sid) # {})
              => \A c \in Customers, a \in PaymentAmounts :
                    CreatePaymentResponse(c, sid, a) # "ok"

\* one session was paid for by an explicit createPayment, another carries the
\* Payment that endSession wrote, and a further createPayment on either is refused
C32_Witness ==
    \E sid, other \in 1..Len(sessions) :
        /\ sid # other
        /\ \E i \in PaymentsOfSession(sid) : payments[i].status = "pending"
        /\ \E i \in PaymentsOfSession(other) : payments[i].payment_method = "balance"
        /\ \A c \in Customers, a \in PaymentAmounts :
              /\ CreatePaymentResponse(c, sid, a) # "ok"
              /\ CreatePaymentResponse(c, other, a) # "ok"

\* the completed sessions whose spot lies in a zone with a tariff
Priced == {sid \in 1..Len(sessions) :
              /\ sessions[sid].status = "completed"
              /\ spots[sessions[sid].spot].exists
              /\ ZoneTariff[spots[sessions[sid].spot].zone].present}

\* C33: one cost rule at every call site: for every completed session the
\* amount computed at payment creation equals the total_cost recorded at
\* session end, so createPayment with amount = total_cost is accepted for a
\* session that has no Payment yet.
C33_OneCostRule ==
    \A sid \in Priced :
        /\ CalculatedAmount(sid) = sessions[sid].total_cost
        /\ PaymentsOfSession(sid) = {}
              => CreatePaymentResponse(VehicleOwner[sessions[sid].vehicle], sid,
                                       sessions[sid].total_cost) = "ok"

\* the edges of the booking lifecycle
LifecycleEdges ==
    {<<"pending", "confirmed">>, <<"confirmed", "completed">>,
     <<"pending", "cancelled">>, <<"confirmed", "cancelled">>}

\* the sessions bound to booking b that this step has ended
EndedFor(b) == {sid \in 1..Len(sessions) :
                   /\ sessions[sid].booking = b
                   /\ sessions[sid].status = "active"
                   /\ sessions'[sid].status = "completed"}

\* C34: every change of a booking's status follows an edge of the lifecycle
\* pending -> confirmed -> completed, pending|confirmed -> cancelled; a
\* confirmed booking never returns to pending, and a booking becomes completed
\* only in the step that ends a session bound to it.
C34_BookingLifecycle ==
    [][\A b \in 1..Len(bookings) :
          bookings'[b].status # bookings[b].status =>
             /\ <<bookings[b].status, bookings'[b].status>> \in LifecycleEdges
             /\ bookings'[b].status = "completed" => EndedFor(b) # {}]_vars

\* C35: a topup with an amount <= 0 is rejected and changes neither balance
\* nor ledger; a topup with an amount > 0 raises the balance by exactly the
\* amount and appends exactly one topup row whose balance_before is the old
\* and whose balance_after is the new balance, both in the same step.
C35_TopupExact ==
    [][\A c \in Customers, a \in TopupInputs :
          Topup(c, a) =>
             /\ a <= 0 => (TopupResponse(c, a) # "ok" /\ UNCHANGED <<balance, ledger>>)
             /\ a > 0 =>
                  /\ balance' = [balance EXCEPT ![c] = balance[c] + a]
                  /\ ledger' = Append(ledger,
                        Txn(c, 0, 0, a, "topup", balance[c], balance[c] + a))]_vars

\* a topup of 200 is the last ledger row and the balance is what it recorded
C35_Witness ==
    /\ ledger # <<>>
    /\ LET t == ledger[Len(ledger)]
       IN /\ t.type = "topup"
          /\ t.amount = 200
          /\ t.balance_after = t.balance_before + 200
          /\ balance[t.customer] = t.balance_after
          /\ t.balance_before > 0

\* the completed sessions that came from a booking
SettledBooked == {sid \in 1..Len(sessions) :
                     sessions[sid].status = "completed" /\ sessions[sid].booking # 0}

\* every ledger row of customer c belongs to booking b
OnlyBooking(c, b) == TxnsOf(c) # {} /\ \A i \in TxnsOf(c) : ledger[i].booking = b

FirstTxnOf(c) == CHOOSE i \in TxnsOf(c) : \A j \in TxnsOf(c) : i <= j

RECURSIVE RefundSum(_, _)
RefundSum(b, n) ==
    IF n = 0 THEN 0
    ELSE RefundSum(b, n - 1)
         + (IF ledger[n].booking = b /\ ledger[n].type = "refund" THEN ledger[n].amount ELSE 0)

\* C37: for every booking the refunds that reference it never add up to more
\* than its estimated_cost, whatever cancellations, status updates and
\* sessions it goes through.
C37_RefundsWithinEstimate ==
    \A b \in 1..Len(bookings) :
        bookings[b].estimated_cost # NoCost
           => RefundSum(b, Len(ledger)) <= bookings[b].estimated_cost

\* C38: every session created with a booking has a recorded entry_time inside
\* the booking's window, start - 5 minutes <= entry_time <= end, whether the
\* caller supplied the entry_time or it defaulted to the current time.
C38_EntryInsideWindow ==
    \A sid \in 1..Len(sessions) :
        sessions[sid].booking # 0 =>
           /\ bookings[sessions[sid].booking].start - BufferMinutes <= sessions[sid].entry_time
           /\ sessions[sid].entry_time <= bookings[sessions[sid].booking].end

\* the bookings that hold their spot now: pending or confirmed, clock inside the window
HoldingNow == {b \in 1..Len(bookings) :
                  /\ bookings[b].status \in {"pending", "confirmed"}
                  /\ bookings[b].start <= now
                  /\ now <= bookings[b].end}

\* C39: while a booking holds its spot, a startSession on that spot without
\* the booking's id (a walk-in or another customer's session) is rejected,
\* and the spot is never occupied by a session that is not the booking's.
C39_ReservedSpotKept ==
    \A b \in HoldingNow :
        /\ \A c \in Customers, v \in Fleet, other \in 0..MaxBookings :
              other # b => StartSessionResponse(c, v, bookings[b].spot, other, NoTime) # "ok"
        /\ \A sid \in ActiveOn(bookings[b].spot) : sessions[sid].booking = b

\* two quotes under the same tariff, the first for the shorter stay
SameTariffOrdered(p, q) ==
    /\ req[p].args[2] = req[q].args[2]
    /\ req[p].args[3] = req[q].args[3]
    /\ req[p].args[1] <= req[q].args[1]

\* C40: under both cost functions the cost is non-decreasing in the
\* duration: for one tariff and d1 <= d2, cost(d1) <= cost(d2), also across
\* the 24-hour boundary.
C40_CostMonotone ==
    \A p \in Quoted, q \in Quoted :
        SameTariffOrdered(p, q) =>
            /\ req[p].read[1] <= req[q].read[1]
            /\ req[p].read[2] <= req[q].read[2]
====
